---- MODULE Spec2Model ----
(***************************************************************************)
(* Model of src/millionaire_game.py: the question-bank parser              *)
(* (parse_question_bank) and the console game driven by main.              *)
(*                                                                         *)
(* A text is a sequence of tokens.  Every token stands for one fixed piece *)
(* of text, so that the regular expressions of the source can be matched   *)
(* token by token exactly as Python's re matches them character by         *)
(* character:                                                              *)
(*   "NL"  the newline character          "SP"  a run of blanks            *)
(*   "**"  two asterisks                  "T"   the words of a topic header*)
(*   "Q"   the word that opens a question ":" "." "(" ")"  themselves      *)
(*   "A" "B" "C" "D"  the four option letters                              *)
(*   "MK"  the correct-answer phrase      "ANS" its first word alone       *)
(*   "1" "2" "3"  decimal digits                                           *)
(*   any other string: a word, a piece of text that holds none of the above*)
(***************************************************************************)
EXTENDS Integers, Sequences, FiniteSets, TLC

\* ------------------------------------------------------------------ bounds
\* the number of items (topic headers and question blocks) of a generated bank
MaxItems == 4

\* ------------------------------------------------------------ character classes
WS == {"SP", "NL"}
DIGIT == {"0", "1", "2", "3", "4", "5", "6", "7", "8", "9"}
ANSWER_WORD == {"MK", "ANS"}

\* ------------------------------------------------------------ regex elements
Lit(c) == [t |-> "lit", s |-> {c}, min |-> 0, g |-> 0, dotall |-> FALSE, p |-> <<>>]
OneOf(S) == [t |-> "lit", s |-> S, min |-> 0, g |-> 0, dotall |-> FALSE, p |-> <<>>]
Star(S) == [t |-> "greedy", s |-> S, min |-> 0, g |-> 0, dotall |-> FALSE, p |-> <<>>]
Plus(S) == [t |-> "greedy", s |-> S, min |-> 1, g |-> 0, dotall |-> FALSE, p |-> <<>>]
Lazy(grp, da) == [t |-> "lazy", s |-> {}, min |-> 0, g |-> grp, dotall |-> da, p |-> <<>>]
LookOrEnd(pat) == [t |-> "look", s |-> {}, min |-> 0, g |-> 0, dotall |-> FALSE, p |-> pat]

NoMatch == [ok |-> FALSE, end |-> 0, caps |-> <<>>]

\* the number of consecutive tokens of class S from position i on
RECURSIVE RunLen(_, _, _)
RunLen(txt, i, S) ==
  IF i <= Len(txt) /\ txt[i] \in S THEN 1 + RunLen(txt, i + 1, S) ELSE 0

Least(S) == CHOOSE x \in S : \A y \in S : x <= y

\* whether the element k of pat can begin at position x: its first token fits
RECURSIVE CanStart(_, _, _, _)
CanStart(txt, pat, k, x) ==
  IF k > Len(pat) THEN TRUE
  ELSE LET e == pat[k] IN
    CASE e.t = "lit" -> x <= Len(txt) /\ txt[x] \in e.s
      [] e.t = "greedy" -> e.min = 0 \/ (x <= Len(txt) /\ txt[x] \in e.s)
      [] e.t = "look" -> x = Len(txt) + 1 \/ CanStart(txt, e.p, 1, x)
      [] OTHER -> TRUE

\* the positions from..to at which the element k of pat can begin
Candidates(txt, pat, k, from, to) == {x \in from..to : CanStart(txt, pat, k, x)}

\* the position after the longest run a lazy repetition starting at i may take:
\* the end of the text, or the first newline when the dot does not match it
DotLimit(txt, i, dotall) ==
  IF dotall THEN Len(txt) + 1
  ELSE Least({x \in i..Len(txt) : txt[x] = "NL"} \cup {Len(txt) + 1})

\* Backtracking match of the elements k.. of pattern pat at position i:
\* a greedy repetition tries its longest run first, a lazy one its shortest
\* (of the ends at which the next element can begin: the others fail at once).
RECURSIVE Match(_, _, _, _, _)
RECURSIVE TryGreedy(_, _, _, _, _, _)
RECURSIVE TryLazy(_, _, _, _, _, _)
Match(txt, pat, k, i, caps) ==
  IF k > Len(pat) THEN [ok |-> TRUE, end |-> i, caps |-> caps]
  ELSE LET e == pat[k] IN
    CASE e.t = "lit" ->
           IF i <= Len(txt) /\ txt[i] \in e.s
             THEN Match(txt, pat, k + 1, i + 1, caps) ELSE NoMatch
      [] e.t = "greedy" -> TryGreedy(txt, pat, k, i, i + RunLen(txt, i, e.s), caps)
      [] e.t = "lazy" ->
           TryLazy(txt, pat, k, i,
                   Candidates(txt, pat, k + 1, i, DotLimit(txt, i, e.dotall)), caps)
      [] e.t = "look" ->
           IF i = Len(txt) + 1 \/ Match(txt, e.p, 1, i, caps).ok
             THEN Match(txt, pat, k + 1, i, caps) ELSE NoMatch

TryGreedy(txt, pat, k, i, j, caps) ==
  IF j < i + pat[k].min THEN NoMatch
  ELSE LET r == Match(txt, pat, k + 1, j, caps) IN
    IF r.ok THEN r ELSE TryGreedy(txt, pat, k, i, j - 1, caps)

TryLazy(txt, pat, k, i, ends, caps) ==
  IF ends = {} THEN NoMatch
  ELSE LET j == Least(ends)
           g == pat[k].g
           r == Match(txt, pat, k + 1, j,
                      IF g = 0 THEN caps ELSE [caps EXCEPT ![g] = <<i, j - 1>>])
       IN IF r.ok THEN r ELSE TryLazy(txt, pat, k, i, ends \ {j}, caps)

Slice(txt, from, to) == [x \in 1..(to - from + 1) |-> txt[from + x - 1]]

\* re.findall: the groups of the non-overlapping matches, leftmost first
RECURSIVE findall(_, _, _, _)
findall(pat, ngroups, txt, pos) ==
  LET starts == Candidates(txt, pat, 1, pos, Len(txt) + 1) IN
  IF starts = {} THEN <<>>
  ELSE LET at == Least(starts)
           r == Match(txt, pat, 1, at, [x \in 1..ngroups |-> <<1, 0>>])
       IN IF r.ok
            THEN <<[x \in 1..ngroups |-> Slice(txt, r.caps[x][1], r.caps[x][2])]>>
                 \o findall(pat, ngroups, txt, IF r.end > at THEN r.end ELSE at + 1)
            ELSE findall(pat, ngroups, txt, at + 1)

\* re.sub(pat, "", txt): the text without the non-overlapping matches
RECURSIVE sub_empty(_, _, _)
sub_empty(pat, txt, pos) ==
  IF pos > Len(txt) THEN <<>>
  ELSE LET r == Match(txt, pat, 1, pos, <<>>) IN
    IF r.ok /\ r.end > pos THEN sub_empty(pat, txt, r.end)
    ELSE <<txt[pos]>> \o sub_empty(pat, txt, pos + 1)

\* str.strip(): without the leading and the trailing whitespace
RECURSIVE strip(_)
strip(s) ==
  IF s = <<>> THEN s
  ELSE IF s[1] \in WS THEN strip(Tail(s))
  ELSE IF s[Len(s)] \in WS THEN strip(SubSeq(s, 1, Len(s) - 1))
  ELSE s

\* ------------------------------------------------------------ the patterns
\* topic_pattern without its lookahead: the lazy body of a topic stops at once
topic_pattern_no_lookahead ==
  << Lit("**"), Lit("T"), Lazy(0, TRUE), Lit(":"), Star(WS), Lazy(1, TRUE), Lit("**"),
     Lazy(2, TRUE) >>

topic_pattern ==
  << Lit("**"), Lit("T"), Lazy(0, TRUE), Lit(":"), Star(WS), Lazy(1, TRUE), Lit("**"),
     Lazy(2, TRUE), LookOrEnd(<<Lit("**"), Lit("T")>>) >>

question_pattern ==
  << Plus(DIGIT), Lit("."), Star(WS), Lit("Q"), Lit(":"), Star(WS), Lazy(1, TRUE),
     Lit("NL"), Star(WS), Lit("A"), Lit(")"), Star(WS), Lazy(2, TRUE),
     Lit("NL"), Star(WS), Lit("B"), Lit(")"), Star(WS), Lazy(3, TRUE),
     Lit("NL"), Star(WS), Lit("C"), Lit(")"), Star(WS), Lazy(4, TRUE),
     Lit("NL"), Star(WS), Lit("D"), Lit(")"), Star(WS), Lazy(5, TRUE),
     LookOrEnd(<<Lit("NL"), Star(WS), Plus(DIGIT), Lit(".")>>) >>

marker_pattern ==
  << Star(WS), Lit("("), Lazy(0, FALSE), OneOf(ANSWER_WORD), Lazy(0, FALSE), Lit(")") >>

\* "الإجابة الصحيحة" in option
has_marker(option) == \E x \in 1..Len(option) : option[x] = "MK"

\* ------------------------------------------------------------ the embedded sample
\* QUESTION_BANK, token by token; w1..w25 are its pieces of ordinary text.
QUESTION_BANK ==
  << "w1", ".", "NL",
     "w2", ".", "NL",
     "NL",
     "w3", ".", "SP", "w4", "SP", "MK", ".", "SP", "w5", "NL",
     "NL",
     "**", "w6", ":", "**", "NL",
     "NL",
     "**", "T", "SP", "w7", ":", "SP", "w8", "**", "NL",
     "1", ".", "SP", "Q", ":", "SP", "w9", "NL",
     "SP", "A", ")", "SP", "w10", "NL",
     "SP", "B", ")", "SP", "w11", "SP", "(", "MK", ")", "NL",
     "SP", "C", ")", "SP", "w12", "NL",
     "SP", "D", ")", "SP", "w13", "NL",
     "NL",
     "2", ".", "SP", "Q", ":", "SP", "w14", ".", ".", ".", "NL",
     "SP", "A", ")", "SP", "w15", "SP", "(", "MK", ")", "NL",
     "SP", "B", ")", "SP", "w16", "NL",
     "SP", "C", ")", "SP", "w17", "NL",
     "SP", "D", ")", "SP", "w18", "NL",
     "NL",
     "**", "T", "SP", "w19", ":", "SP", "w20", "**", "NL",
     "1", ".", "SP", "Q", ":", "SP", "w21", "NL",
     "SP", "A", ")", "SP", "w22", "NL",
     "SP", "B", ")", "SP", "w23", "SP", "(", "MK", ")", "NL",
     "SP", "C", ")", "SP", "w24", "NL",
     "SP", "D", ")", "SP", "w25", "NL" >>

\* ------------------------------------------------------------ generated banks
\* A bank is a sequence of items, each a topic header or a question block.
\* The words of the item at position i carry i, so that every name, prompt and
\* option of a bank is a different word.
Word(prefix, i) == prefix \o ToString(i)

HeaderKinds == {"Hp", "He"}
BlockKinds == {"std", "none", "multi", "missC", "noPrompt", "odd"}
ItemKinds == HeaderKinds \cup BlockKinds

\* the text after an option label: plain, or with the marker in one of three styles
OptionText(style, w) ==
  CASE style = "plain" -> <<"SP", w>>
    [] style = "std"   -> <<"SP", w, "SP", "(", "MK", ")">>
    [] style = "bare"  -> <<"SP", w, "SP", "MK">>
    [] style = "paren" -> <<"SP", w, "(", "x", ")", "SP", "(", "MK", ")">>
    [] style = "absent" -> <<>>

OptionLine(letter, style, w) ==
  IF style = "absent" THEN <<>>
  ELSE <<"SP", letter, ")">> \o OptionText(style, w) \o <<"NL">>

BlockLabel(kind) ==
  CASE kind = "std" -> <<"1">>
    [] kind = "none" -> <<"2">>
    [] kind = "multi" -> <<"2">>
    [] kind = "missC" -> <<"3">>
    [] kind = "noPrompt" -> <<"1">>
    [] kind = "odd" -> <<"1", "2">>

BlockStyles(kind) ==
  CASE kind = "std" -> <<"plain", "std", "plain", "plain">>
    [] kind = "none" -> <<"plain", "plain", "plain", "plain">>
    [] kind = "multi" -> <<"std", "plain", "std", "plain">>
    [] kind = "missC" -> <<"std", "plain", "absent", "plain">>
    [] kind = "noPrompt" -> <<"plain", "plain", "plain", "std">>
    [] kind = "odd" -> <<"plain", "paren", "bare", "plain">>

ItemText(kind, i) ==
  CASE kind = "Hp" -> <<"**", "T", "SP", "w", ":", "SP", Word("n", i), "SP", "**", "NL">>
    [] kind = "He" -> <<"**", "T", ":", "**", "NL">>
    [] OTHER ->
         BlockLabel(kind) \o <<".", "SP", "Q", ":">>
         \o (IF kind = "noPrompt" THEN <<>> ELSE <<"SP", Word("p", i), "SP">>)
         \o <<"NL">>
         \o OptionLine("A", BlockStyles(kind)[1], Word("a", i))
         \o OptionLine("B", BlockStyles(kind)[2], Word("b", i))
         \o OptionLine("C", BlockStyles(kind)[3], Word("c", i))
         \o OptionLine("D", BlockStyles(kind)[4], Word("d", i))
         \o <<"NL">>

RECURSIVE BankText(_, _)
BankText(bank, i) ==
  IF i > Len(bank) THEN <<>> ELSE ItemText(bank[i], i) \o BankText(bank, i + 1)

\* the banks of at most MaxItems items over the kinds K that open with a header
BanksOver(K) ==
  {b \in UNION {[1..n -> K] : n \in 0..MaxItems} : b # <<>> => b[1] \in HeaderKinds}

Banks == BanksOver(ItemKinds)
MainBanks == BanksOver({"Hp", "std", "none"})

\* the bank that stands for the embedded sample
SAMPLE == <<"QUESTION_BANK">>

TextOf(b) == IF b = SAMPLE THEN QUESTION_BANK ELSE BankText(b, 1)

\* ------------------------------------------------------------ parse_question_bank
None == -1

\* option_loop keeping the first marked index instead of the last
RECURSIVE option_loop_first_wins(_, _, _, _)
option_loop_first_wins(raw, idx, opts, correct) ==
  IF idx >= Len(raw) THEN [options |-> opts, correct_index |-> correct]
  ELSE LET option_clean == strip(raw[idx + 1]) IN
    IF has_marker(option_clean)
      THEN option_loop_first_wins(raw, idx + 1,
             Append(opts, strip(sub_empty(marker_pattern, option_clean, 1))),
             IF correct = None THEN idx ELSE correct)
      ELSE option_loop_first_wins(raw, idx + 1, Append(opts, option_clean), correct)

\* the loop over raw_options: the cleaned options and the index of the marked one
RECURSIVE option_loop(_, _, _, _)
option_loop(raw, idx, opts, correct) ==
  IF idx >= Len(raw) THEN [options |-> opts, correct_index |-> correct]
  ELSE LET option_clean == strip(raw[idx + 1]) IN
    IF has_marker(option_clean)
      THEN option_loop(raw, idx + 1,
                       Append(opts, strip(sub_empty(marker_pattern, option_clean, 1))), idx)
      ELSE option_loop(raw, idx + 1, Append(opts, option_clean), correct)

\* add_question defaulting to index 0 when no option carried the marker
add_question_default_zero(qs, prompt, opts, correct) ==
  Append(qs, [question |-> strip(prompt), options |-> opts,
              correct_index |-> IF correct = None THEN 0 ELSE correct])

\* add_question putting the new question first
add_question_prepend(qs, prompt, opts, correct) ==
  IF correct = None THEN qs
  ELSE <<[question |-> strip(prompt), options |-> opts, correct_index |-> correct]>> \o qs

\* questions.append(...), skipped when no option carried the marker
add_question(qs, prompt, opts, correct) ==
  IF correct = None THEN qs
  ELSE Append(qs, [question |-> strip(prompt), options |-> opts, correct_index |-> correct])

\* add_topic keeping a topic without questions
add_topic_always(ts, name, qs) == Append(ts, [topic |-> name, questions |-> qs])

\* topics.append(...), skipped when the topic has no question
add_topic(ts, name, qs) ==
  IF qs # <<>> THEN Append(ts, [topic |-> name, questions |-> qs]) ELSE ts

\* ------------------------------------------------------------ console input
\* A line typed at the console, or a command-line value, is a sequence of
\* characters: decimal digits, "sup2" (the superscript two, a digit that is not
\* decimal) and words.
SUPERSCRIPT == {"sup2"}

\* str.isdigit(): not empty and made of digits, decimal or not
isdigit(s) == s # <<>> /\ \A x \in 1..Len(s) : s[x] \in DIGIT \cup SUPERSCRIPT

\* int(s) raises ValueError unless every digit is decimal
int_raises(s) == \E x \in 1..Len(s) : s[x] \notin DIGIT

DigitValue(c) ==
  CASE c = "0" -> 0 [] c = "1" -> 1 [] c = "2" -> 2 [] c = "3" -> 3 [] c = "4" -> 4
    [] c = "5" -> 5 [] c = "6" -> 6 [] c = "7" -> 7 [] c = "8" -> 8 [] c = "9" -> 9

RECURSIVE int(_)
int(s) == IF s = <<>> THEN 0 ELSE 10 * int(SubSeq(s, 1, Len(s) - 1)) + DigitValue(s[Len(s)])

ConsoleInputs == {<<"1">>, <<"2">>, <<"3">>, <<"4">>, <<"5">>, <<"x">>, <<"sup2">>}

LANGUAGE_AR == "ar"
LANGUAGE_EN == "en"
NoValue == <<"None">>

TopicArgs == {NoValue, <<"1">>, <<"9">>, <<"sup2">>, <<"n1">>, <<"E20">>}

\* ------------------------------------------------------------ translation
\* The keys are the Arabic texts of the sample, the values their English texts
\* ("E8" is the English of "w8"); the lower case of "E8" is "e8".
TRANSLATION_MAP ==
  ( <<"w8">> :> <<"E8">> ) @@ ( <<"w9">> :> <<"E9">> ) @@ ( <<"w10">> :> <<"E10">> )
  @@ ( <<"w11">> :> <<"E11">> ) @@ ( <<"w12">> :> <<"E12">> ) @@ ( <<"w13">> :> <<"E13">> )
  @@ ( <<"w14", ".", ".", ".">> :> <<"E14", ".", ".", ".">> )
  @@ ( <<"w15">> :> <<"E15">> ) @@ ( <<"w16">> :> <<"E16">> ) @@ ( <<"w17">> :> <<"E17">> )
  @@ ( <<"w18">> :> <<"E18">> ) @@ ( <<"w20">> :> <<"E20">> ) @@ ( <<"w21">> :> <<"E21">> )
  @@ ( <<"w22">> :> <<"E22">> ) @@ ( <<"w23">> :> <<"E23">> ) @@ ( <<"w24">> :> <<"E24">> )
  @@ ( <<"w25">> :> <<"E25">> )

translate_text(t) ==
  IF strip(t) \in DOMAIN TRANSLATION_MAP THEN TRANSLATION_MAP[strip(t)] ELSE strip(t)

LowerWord(c) == CASE c = "E8" -> "e8" [] c = "E20" -> "e20" [] OTHER -> c
lower(s) == [x \in 1..Len(s) |-> LowerWord(s[x])]

\* the topic a --topic value names: its index in topics, 0 for None
resolve_topic_preselection(ts, identifier) ==
  LET id == strip(identifier) IN
  IF id = <<>> THEN 0
  ELSE IF isdigit(id)
    THEN (IF int(id) - 1 >= 0 /\ int(id) - 1 < Len(ts) THEN int(id) ELSE 0)
    ELSE LET hits == {x \in 1..Len(ts) :
                        lower(id) \in {lower(strip(ts[x].topic)),
                                       lower(strip(translate_text(strip(ts[x].topic))))}}
         IN IF hits = {} THEN 0 ELSE CHOOSE x \in hits : \A y \in hits : x <= y

\* random.sample(questions, k=len(questions)): the questions in any order
Shuffles(qs) ==
  {[x \in 1..Len(qs) |-> qs[f[x]]] :
     f \in {g \in [1..Len(qs) -> 1..Len(qs)] : \A x, y \in 1..Len(qs) : g[x] = g[y] => x = y}}

\* no_topics never stopping main
no_topics_never(ts) == FALSE

\* main goes on only when the parser found a topic
no_topics(ts) == ts = <<>>

\* ------------------------------------------------------------ state
VARIABLES bank, text, pc, topic_matches, ti, cleaned_topic, question_matches, qi,
          raw_options, options, correct_index, questions, topics,
          args_language, args_topic, language, chosen_topic, shuffled_questions,
          number, answer, printed, asked

parser_vars == <<topic_matches, ti, cleaned_topic, question_matches, qi,
                 raw_options, options, correct_index, questions, topics>>
game_vars == <<language, chosen_topic, shuffled_questions, number, answer, printed, asked>>
input_vars == <<bank, text, args_language, args_topic>>
vars == <<input_vars, pc, parser_vars, game_vars>>

Start ==
  /\ text = TextOf(bank)
  /\ pc = "call"
  /\ topic_matches = <<>> /\ ti = 0
  /\ cleaned_topic = <<>>
  /\ question_matches = <<>> /\ qi = 0
  /\ raw_options = <<>> /\ options = <<>> /\ correct_index = None
  /\ questions = <<>>
  /\ topics = <<>>
  /\ language = "" /\ chosen_topic = 0
  /\ shuffled_questions = <<>> /\ number = 0 /\ answer = <<>>
  /\ printed = {} /\ asked = <<>>

\* a call of parse_question_bank on any bank
Init ==
  /\ bank \in Banks \cup {SAMPLE}
  /\ args_language = "None" /\ args_topic = NoValue
  /\ Start

\* a run of main with any command line
InitMain ==
  /\ bank \in MainBanks \cup {SAMPLE}
  /\ args_language \in {"None", LANGUAGE_AR, LANGUAGE_EN}
  /\ args_topic \in TopicArgs
  /\ Start

\* ------------------------------------------------------------ parse_question_bank, step by step
\* topics = []; the topic matches of the text
ParseBegin ==
  /\ pc = "call"
  /\ topics' = <<>>
  /\ topic_matches' = findall(topic_pattern, 2, text, 1)
  /\ ti' = 1
  /\ pc' = "topic_loop"
  /\ UNCHANGED <<input_vars, game_vars, cleaned_topic, question_matches, qi, raw_options,
                 options, correct_index, questions>>

\* one iteration of the outer loop starts: the name, and the question matches
TopicBegin ==
  /\ pc = "topic_loop" /\ ti <= Len(topic_matches)
  /\ cleaned_topic' = strip(topic_matches[ti][1])
  /\ questions' = <<>>
  /\ question_matches' = findall(question_pattern, 5, topic_matches[ti][2], 1)
  /\ qi' = 1
  /\ pc' = "question_loop"
  /\ UNCHANGED <<input_vars, game_vars, topic_matches, ti, raw_options, options,
                 correct_index, topics>>

\* one iteration of the inner loop
QuestionBody ==
  /\ pc = "question_loop" /\ qi <= Len(question_matches)
  /\ LET m == question_matches[qi]
         raw == <<m[2], m[3], m[4], m[5]>>
         r == option_loop(raw, 0, <<>>, None)
     IN /\ raw_options' = raw
        /\ options' = r.options
        /\ correct_index' = r.correct_index
        /\ questions' = add_question(questions, m[1], r.options, r.correct_index)
  /\ qi' = qi + 1
  /\ UNCHANGED <<input_vars, game_vars, pc, topic_matches, ti, cleaned_topic,
                 question_matches, topics>>

\* the inner loop is over: the topic is kept if it has questions
TopicEnd ==
  /\ pc = "question_loop" /\ qi > Len(question_matches)
  /\ topics' = add_topic(topics, cleaned_topic, questions)
  /\ ti' = ti + 1
  /\ pc' = "topic_loop"
  /\ UNCHANGED <<input_vars, game_vars, topic_matches, cleaned_topic, question_matches, qi,
                 raw_options, options, correct_index, questions>>

\* return topics
ParseReturn ==
  /\ pc = "topic_loop" /\ ti > Len(topic_matches)
  /\ pc' = "returned"
  /\ UNCHANGED <<input_vars, game_vars, parser_vars>>

\* ------------------------------------------------------------ main and the game
\* main after the parse: stop without topics, else the welcome screen
MainCheck ==
  /\ pc = "returned"
  /\ IF no_topics(topics)
       THEN printed' = printed \cup {"no_questions"} /\ pc' = "exit"
       ELSE printed' = printed \cup {"welcome"} /\ pc' = "choose_language"
  /\ UNCHANGED <<input_vars, parser_vars, language, chosen_topic, shuffled_questions,
                 number, answer, asked>>

\* choose_language with --language given
LanguagePreselected ==
  /\ pc = "choose_language" /\ args_language \in {LANGUAGE_AR, LANGUAGE_EN}
  /\ language' = args_language
  /\ printed' = printed \cup {"language_selected"}
  /\ pc' = "choose_topic"
  /\ UNCHANGED <<input_vars, parser_vars, chosen_topic, shuffled_questions, number,
                 answer, asked>>

\* choose_language: one round of the prompt
LanguagePrompt ==
  /\ pc = "choose_language" /\ args_language \notin {LANGUAGE_AR, LANGUAGE_EN}
  /\ \E choice \in ConsoleInputs :
       /\ answer' = choice
       /\ IF choice = <<"1">>
            THEN language' = LANGUAGE_AR /\ pc' = "choose_topic"
                 /\ printed' = printed \cup {"language_prompt"}
          ELSE IF choice = <<"2">>
            THEN language' = LANGUAGE_EN /\ pc' = "choose_topic"
                 /\ printed' = printed \cup {"language_prompt"}
          ELSE language' = language /\ pc' = pc
               /\ printed' = printed \cup {"language_prompt", "invalid"}
  /\ UNCHANGED <<input_vars, parser_vars, chosen_topic, shuffled_questions, number, asked>>

\* choose_topic before its menu: the --topic value, if any
TopicPreselection ==
  /\ pc = "choose_topic"
  /\ IF args_topic = NoValue
       THEN pc' = "topic_menu" /\ UNCHANGED <<chosen_topic, printed>>
     ELSE IF isdigit(strip(args_topic)) /\ int_raises(strip(args_topic))
       THEN pc' = "crashed" /\ UNCHANGED <<chosen_topic, printed>>
     ELSE IF resolve_topic_preselection(topics, args_topic) # 0
       THEN /\ chosen_topic' = resolve_topic_preselection(topics, args_topic)
            /\ printed' = printed \cup {"topic_selected"}
            /\ pc' = "ask_questions"
     ELSE /\ printed' = printed \cup {"topic_fallback"}
          /\ pc' = "topic_menu"
          /\ UNCHANGED chosen_topic
  /\ UNCHANGED <<input_vars, parser_vars, language, shuffled_questions, number, answer, asked>>

\* choose_topic: one round of the menu
TopicMenu ==
  /\ pc = "topic_menu"
  /\ \E choice \in ConsoleInputs :
       /\ answer' = choice
       /\ IF isdigit(choice) /\ int_raises(choice)
            THEN pc' = "crashed" /\ printed' = printed \cup {"topic_prompt"}
                 /\ UNCHANGED chosen_topic
          ELSE IF isdigit(choice) /\ 0 <= int(choice) - 1 /\ int(choice) - 1 < Len(topics)
            THEN chosen_topic' = int(choice) /\ pc' = "ask_questions"
                 /\ printed' = printed \cup {"topic_prompt"}
          ELSE pc' = pc /\ printed' = printed \cup {"topic_prompt", "invalid"}
               /\ UNCHANGED chosen_topic
  /\ UNCHANGED <<input_vars, parser_vars, language, shuffled_questions, number, asked>>

\* ask_questions: the shuffle
AskBegin ==
  /\ pc = "ask_questions"
  /\ shuffled_questions' \in Shuffles(topics[chosen_topic].questions)
  /\ number' = 1
  /\ pc' = "present"
  /\ UNCHANGED <<input_vars, parser_vars, language, chosen_topic, answer, printed, asked>>

\* ask_questions: the next question and its options are printed
Present ==
  /\ pc = "present" /\ number <= Len(shuffled_questions)
  /\ asked' = Append(asked, shuffled_questions[number].question)
  /\ printed' = printed \cup {"question"}
  /\ pc' = "answer"
  /\ UNCHANGED <<input_vars, parser_vars, language, chosen_topic, shuffled_questions,
                 number, answer>>

\* ask_questions: one round of the answer prompt; a valid answer is judged
Answer ==
  /\ pc = "answer"
  /\ \E a \in ConsoleInputs :
       /\ answer' = a
       /\ LET q == shuffled_questions[number] IN
          IF isdigit(a) /\ int_raises(a)
            THEN pc' = "crashed" /\ UNCHANGED <<number, printed>>
          ELSE IF isdigit(a) /\ 0 <= int(a) - 1 /\ int(a) - 1 < Len(q.options)
            THEN IF q.correct_index + 1 \in 1..Len(q.options)
                   THEN /\ printed' = printed \cup
                             {IF int(a) - 1 = q.correct_index THEN "correct" ELSE "incorrect"}
                        /\ number' = number + 1
                        /\ pc' = "present"
                   ELSE pc' = "crashed" /\ UNCHANGED <<number, printed>>
          ELSE pc' = pc /\ printed' = printed \cup {"invalid"} /\ UNCHANGED number
  /\ UNCHANGED <<input_vars, parser_vars, language, chosen_topic, shuffled_questions, asked>>

\* ask_questions: the closing message
AskEnd ==
  /\ pc = "present" /\ number > Len(shuffled_questions)
  /\ printed' = printed \cup {"closing"}
  /\ pc' = "exit"
  /\ UNCHANGED <<input_vars, parser_vars, language, chosen_topic, shuffled_questions,
                 number, answer, asked>>

NextParse == ParseBegin \/ TopicBegin \/ QuestionBody \/ TopicEnd \/ ParseReturn

Next ==
  \/ NextParse
  \/ MainCheck \/ LanguagePreselected \/ LanguagePrompt \/ TopicPreselection \/ TopicMenu
  \/ AskBegin \/ Present \/ Answer \/ AskEnd

\* parse_question_bank alone
Spec == Init /\ [][NextParse]_vars

\* main
SpecMain == InitMain /\ [][Next]_vars

\* ------------------------------------------------------------ the claims
\* whether the source text of an option carries the correct-answer phrase
CarriesMarker(raw) == \E x \in 1..Len(raw) : raw[x] = "MK"

\* the indices (0..3) of the marked options of the block
Marked(raw4) == {j \in 0..3 : CarriesMarker(raw4[j + 1])}

Greatest(S) == CHOOSE x \in S : \A y \in S : y <= x

\* the inner loop has just handled a block: raw_options, options and
\* correct_index are those of the block question_matches[qi - 1]
AfterQuestionBody == pc = "question_loop" /\ qi > 1

Last(seq) == seq[Len(seq)]

\* the position of the first occurrence of the word w in the text
Pos(w) == Least({x \in 1..Len(text) : text[x] = w})

FieldWords(q) ==
  {q.question[x] : x \in 1..Len(q.question)}
    \cup UNION {{q.options[j][x] : x \in 1..Len(q.options[j])} : j \in 1..Len(q.options)}

ItemWords(i) == {Word("p", i), Word("a", i), Word("b", i), Word("c", i), Word("d", i)}

EmittedQuestions ==
  UNION {{topics[t].questions[x] : x \in 1..Len(topics[t].questions)} : t \in 1..Len(topics)}

\* C2: a block that lacks an option line contributes nothing, none of its text
\* is in a field of an emitted question, and the well-formed block after it is
\* emitted as its own question.
C2_MalformedBlockSkipped ==
  pc = "returned" =>
    \A i \in 1..Len(bank) : bank[i] = "missC" =>
      /\ \A q \in EmittedQuestions : FieldWords(q) \cap ItemWords(i) = {}
      /\ (i < Len(bank) /\ bank[i + 1] = "std") =>
            [question |-> <<Word("p", i + 1)>>,
             options |-> <<<<Word("a", i + 1)>>, <<Word("b", i + 1)>>,
                           <<Word("c", i + 1)>>, <<Word("d", i + 1)>>>>,
             correct_index |-> 1] \in EmittedQuestions

WellShaped(q) == Len(q.options) = 4 /\ q.correct_index \in 0..3

\* C3: every question has 4 options and a correct_index in 0..3; the block just
\* handled is emitted exactly when one of its options carries the marker, with
\* the index of a marked option; an unmarked block is not emitted.
C3_MarkedOrDropped ==
  /\ \A q \in EmittedQuestions : WellShaped(q)
  /\ \A x \in 1..Len(questions) : WellShaped(questions[x])
  /\ AfterQuestionBody =>
       IF Marked(raw_options) = {}
         THEN /\ correct_index = None
              /\ \A x \in 1..Len(questions) : questions[x].options # options
         ELSE /\ questions # <<>>
              /\ Last(questions).options = options
              /\ Last(questions).correct_index = correct_index
              /\ correct_index \in Marked(raw_options)

C3_Witness ==
  /\ AfterQuestionBody
  /\ Marked(raw_options) = {}
  /\ Len(questions) = 1

\* C4: no emitted topic has an empty question list, and a topic that ends with
\* questions is the last one emitted.
C4_NoEmptyTopic ==
  /\ \A t \in 1..Len(topics) : topics[t].questions # <<>>
  /\ (pc \in {"topic_loop", "returned"} /\ ti > 1 /\ questions # <<>>)
       => /\ topics # <<>>
          /\ Last(topics) = [topic |-> cleaned_topic, questions |-> questions]

C4_Witness ==
  /\ pc = "returned"
  /\ bank = <<"Hp", "none", "Hp", "std">>
  /\ Len(topic_matches) = 2
  /\ Len(topics) = 1 /\ topics[1].topic = <<Word("n", 3)>>

NonBlank(s) == SelectSeq(s, LAMBDA c : c \notin WS)

\* the text without the marker and the brackets that enclose it
RECURSIVE WithoutMarker(_)
WithoutMarker(s) ==
  IF s = <<>> THEN s
  ELSE IF Len(s) >= 3 /\ s[1] = "(" /\ s[2] = "MK" /\ s[3] = ")"
    THEN WithoutMarker(SubSeq(s, 4, Len(s)))
  ELSE IF s[1] = "MK" THEN WithoutMarker(Tail(s))
  ELSE <<s[1]>> \o WithoutMarker(Tail(s))

\* C5: the stored options are trimmed; a marked one is its source text without
\* the marker and its brackets, and nothing else is removed.
C5_OnlyMarkerRemoved ==
  AfterQuestionBody =>
    \A j \in 1..4 :
      /\ options[j] = strip(options[j])
      /\ NonBlank(options[j]) = NonBlank(WithoutMarker(raw_options[j]))

\* the word that identifies an emitted question in the text: the first of its
\* last option
Key(q) == q.options[4][1]

\* C6: topics and questions are in the order of the source text.
C6_SourceOrder ==
  pc = "returned" =>
    /\ \A t \in 1..Len(topics) : \A x, y \in 1..Len(topics[t].questions) :
         x < y => Pos(Key(topics[t].questions[x])) < Pos(Key(topics[t].questions[y]))
    /\ \A t, u \in 1..Len(topics) : t < u =>
         /\ \A x \in 1..Len(topics[t].questions) : \A y \in 1..Len(topics[u].questions) :
              Pos(Key(topics[t].questions[x])) < Pos(Key(topics[u].questions[y]))
         /\ (topics[t].topic # <<>> /\ topics[u].topic # <<>>)
              => Pos(topics[t].topic[1]) < Pos(topics[u].topic[1])
         /\ topics[u].topic # <<>>
              => \A x \in 1..Len(topics[t].questions) :
                   Pos(Key(topics[t].questions[x])) < Pos(topics[u].topic[1])

C6_Witness ==
  /\ pc = "returned"
  /\ bank = <<"Hp", "multi", "std", "std">>
  /\ Len(topics) = 1 /\ Len(topics[1].questions) = 3

\* C7: every emitted topic has a non-empty trimmed name and every emitted
\* question a non-empty prompt.
C7_NamesAndPrompts ==
  /\ \A t \in 1..Len(topics) :
       topics[t].topic # <<>> /\ topics[t].topic = strip(topics[t].topic)
  /\ \A q \in EmittedQuestions : q.question # <<>>

\* C8: the embedded sample yields two topics in source order, the first with
\* two questions (correct_index 1, then 0), the second with one (correct_index 1).
C8_Sample ==
  (pc = "returned" /\ bank = SAMPLE) =>
    /\ Len(topics) = 2
    /\ topics[1].topic = <<"w8">> /\ topics[2].topic = <<"w20">>
    /\ Len(topics[1].questions) = 2 /\ Len(topics[2].questions) = 1
    /\ topics[1].questions[1].question = <<"w9">>
    /\ topics[1].questions[1].correct_index = 1
    /\ topics[1].questions[2].question = <<"w14", ".", ".", ".">>
    /\ topics[1].questions[2].correct_index = 0
    /\ topics[2].questions[1].question = <<"w21">>
    /\ topics[2].questions[1].correct_index = 1

C8_Witness ==
  /\ pc = "returned" /\ bank = SAMPLE
  /\ Len(topics) = 2 /\ topics[1].questions[1].options[2] = <<"w11">>

ParsePcs == {"call", "topic_loop", "question_loop"}

\* C9: when the parser returns no topic, main prints that no questions were
\* found and stops; nothing else is ever printed.
C9_EmptyBankHalts ==
  (pc \notin ParsePcs /\ topics = <<>>) =>
    /\ pc \in {"returned", "exit"}
    /\ printed \subseteq {"no_questions"}
    /\ pc = "exit" => printed = {"no_questions"}

C9_Witness == pc = "exit" /\ topics = <<>> /\ printed = {"no_questions"}

OneToFour == {<<"1">>, <<"2">>, <<"3">>, <<"4">>}

IsPermutation(s, t) ==
  /\ Len(s) = Len(t)
  /\ \E f \in [1..Len(s) -> 1..Len(s)] :
       /\ \A x, y \in 1..Len(s) : f[x] = f[y] => x = y
       /\ \A x \in 1..Len(s) : s[x] = t[f[x]]

\* C10: in ask_questions the run moves on only after an input from 1 to 4, any
\* other input prompts again for the same question, the correct option is
\* always found, and at the closing message every question of the topic was
\* presented exactly once.
C10_AskQuestions ==
  [][ /\ pc = "answer" =>
           /\ number' # number => answer' \in OneToFour
           /\ answer' \notin OneToFour =>
                pc' = "answer" /\ number' = number /\ asked' = asked
           /\ shuffled_questions[number].correct_index \in 0..3
      /\ "closing" \in printed' =>
           IsPermutation(asked', [x \in 1..Len(topics[chosen_topic].questions) |->
                                    topics[chosen_topic].questions[x].question]) ]_vars

====
